---- MODULE Spec2Model ----
(***************************************************************************)
(* The launcher of src/launcher.cpp as a state machine: the indexer        *)
(* (getApplications), the ranking (search), the key handler (onKeyPress),  *)
(* the event loop of main and the launch / save path.                      *)
(*                                                                         *)
(* A std::string is a sequence of bytes; a byte is written as a            *)
(* one-character string, and NUL, 0xC3, 0xA9 name bytes that have no       *)
(* character.  A size_t value is held by its two's-complement reading      *)
(* (SIZE_MAX and string::npos are -1), so that int <-> size_t conversions  *)
(* are the identity on the values the model reaches and only the unsigned  *)
(* comparison (SizeLess) differs from the signed one.  Drawing (render,    *)
(* renderTextInput, cursorBlink) writes no variable of the model and is    *)
(* left out.                                                               *)
(***************************************************************************)
EXTENDS Integers, Sequences, FiniteSets, TLC

VARIABLES
    installed,      \* the desktop files in APP_DIRS
    applications,   \* vector<Application> applications
    style,          \* map<StyleAttribute, string> style
    config,         \* the lines of the file CONFIG
    query,          \* string query
    queryi,         \* string queryi (lower case)
    selected,       \* int selected
    cursor,         \* int cursor
    results,        \* vector<Result> results
    status,         \* where the process is: "running", "exited", "aborted", "fault"
    child,          \* what became of fork and execvp in launch
    lastCmd,        \* history: the event handled last
    prev            \* history: query, cursor, selected, results before that event

vars == <<installed, applications, style, config, query, queryi, selected, cursor, results,
          status, child, lastCmd, prev>>

(***************************************************************************)
(* Bytes and strings                                                       *)
(***************************************************************************)
NUL == "NUL"

SP == " "

UpperToLower ==
    [A |-> "a", B |-> "b", C |-> "c", D |-> "d", E |-> "e", F |-> "f", G |-> "g",
     H |-> "h", I |-> "i", J |-> "j", K |-> "k", L |-> "l", M |-> "m", N |-> "n",
     O |-> "o", P |-> "p", Q |-> "q", R |-> "r", S |-> "s", T |-> "t", U |-> "u",
     V |-> "v", W |-> "w", X |-> "x", Y |-> "y", Z |-> "z"]

tolower(c) == IF c \in DOMAIN UpperToLower THEN UpperToLower[c] ELSE c

lowercase(str) == [k \in 1..Len(str) |-> tolower(str[k])]

Min(S) == CHOOSE x \in S : \A y \in S : x <= y

\* string::npos, as the int it is stored into (and SIZE_MAX)
npos == -1

\* SizeLess with the operands compared as ints
SignedLess(a, b) == a < b

\* unsigned comparison of two size_t values (an int operand is converted first)
SizeLess(a, b) == IF (a < 0) = (b < 0) THEN a < b ELSE b < 0

\* word.find(q): the offset of the first occurrence of q in word, or npos
find(word, q) ==
    LET hits == {p \in 0..(Len(word) - Len(q)) : SubSeq(word, p + 1, p + Len(q)) = q}
    IN  IF hits = {} THEN npos ELSE Min(hits)

\* line.find(prefix) == 0
StartsWith(line, prefix) == find(line, prefix) = 0

\* str.substr(pos) for pos <= str.length()
substr(str, pos) == SubSeq(str, pos + 1, Len(str))

\* the C string held in a zero-filled char buffer that starts with the bytes of text
CString(text) ==
    LET nul == {k \in 1..Len(text) : text[k] = NUL}
    IN  IF nul = {} THEN text ELSE SubSeq(text, 1, Min(nul) - 1)

\* while (getline(ss, word, delim)): the words of str in order.  A word ends at
\* each delim and, when str does not end with delim, at the end of str
getlineAll(str, delim) ==
    LET ends == {k \in 1..Len(str) : str[k] = delim}
                \cup (IF Len(str) > 0 /\ str[Len(str)] # delim THEN {Len(str) + 1} ELSE {})
        rank == [e \in ends |-> Cardinality({d \in ends : d <= e})]
        end(k) == CHOOSE e \in ends : rank[e] = k
    IN  [k \in 1..Cardinality(ends) |->
            SubSeq(str, IF k = 1 THEN 1 ELSE end(k - 1) + 1, end(k) - 1)]

(***************************************************************************)
(* getApplications: one Application per desktop file                       *)
(***************************************************************************)
NameKey == <<"N", "a", "m", "e", "=">>
GenericNameKey == <<"G", "e", "n", "e", "r", "i", "c", "N", "a", "m", "e", "=">>
CommentKey == <<"C", "o", "m", "m", "e", "n", "t", "=">>
ExecKey == <<"E", "x", "e", "c", "=">>
KeywordsKey == <<"K", "e", "y", "w", "o", "r", "d", "s", "=">>

Weighted(words, weight) == [k \in 1..Len(words) |-> [word |-> words[k], weight |-> weight]]

\* Application app = {}; app.id = entry.path()
newApplication(path) ==
    [id |-> path, name |-> << >>, genericName |-> << >>, comment |-> << >>,
     cmd |-> << >>, keywords |-> << >>, count |-> 0]

\* the body of the loop over the lines of a desktop file
readLine(app, line) ==
    LET a1 == IF app.name = << >> /\ StartsWith(line, NameKey)
              THEN [app EXCEPT !.name = substr(line, 5)] ELSE app
        a2 == IF a1.genericName = << >> /\ StartsWith(line, GenericNameKey)
              THEN [a1 EXCEPT !.genericName = substr(line, 12)] ELSE a1
        a3 == IF a2.comment = << >> /\ StartsWith(line, CommentKey)
              THEN [a2 EXCEPT !.comment = substr(line, 8)] ELSE a2
        a4 == IF a3.cmd = << >> /\ StartsWith(line, ExecKey) /\ substr(line, 5) # << >>
              THEN [a3 EXCEPT !.cmd = substr(line, 5)] ELSE a3
    IN  IF a4.cmd = << >> /\ StartsWith(line, KeywordsKey)
        THEN [a4 EXCEPT !.keywords =
                 @ \o Weighted(getlineAll(lowercase(substr(line, 9)), SP), 1)]
        ELSE a4

RECURSIVE readLines(_, _)
readLines(app, lines) ==
    IF lines = << >> THEN app
    ELSE readLines(readLine(app, Head(lines)), Tail(lines))

\* one directory entry: the lines, then the name and generic name / comment words
readEntry(file) ==
    LET app == readLines(newApplication(file.path), file.lines)
    IN  [app EXCEPT !.keywords =
            @ \o Weighted(getlineAll(lowercase(app.name), SP), 1000)
              \o Weighted(getlineAll(lowercase(app.genericName \o <<SP>> \o app.comment), SP), 1)]

getApplications(files) == [k \in 1..Len(files) |-> readEntry(files[k])]

(***************************************************************************)
(* The style tables and the file CONFIG                                    *)
(***************************************************************************)
\* enum StyleAttribute, in the order of a map<StyleAttribute, ...>
StyleAttribute ==
    <<"C_TITLE", "C_COMMENT", "C_BG", "C_HIGHLIGHT", "C_MATCH",
      "F_REGULAR", "F_BOLD", "F_SMALLREGULAR", "F_SMALLBOLD", "F_LARGE">>

STYLE_ATTRIBUTES ==
    [C_TITLE |-> <<"t", "i", "t", "l", "e">>,
     C_COMMENT |-> <<"c", "o", "m", "m", "e", "n", "t">>,
     C_BG |-> <<"b", "a", "c", "k", "g", "r", "o", "u", "n", "d">>,
     C_HIGHLIGHT |-> <<"h", "i", "g", "h", "l", "i", "g", "h", "t">>,
     C_MATCH |-> <<"m", "a", "t", "c", "h">>,
     F_REGULAR |-> <<"r", "e", "g", "u", "l", "a", "r">>,
     F_BOLD |-> <<"b", "o", "l", "d">>,
     F_SMALLREGULAR |-> <<"s", "m", "a", "l", "l", "r", "e", "g", "u", "l", "a", "r">>,
     F_SMALLBOLD |-> <<"s", "m", "a", "l", "l", "b", "o", "l", "d">>,
     F_LARGE |-> <<"l", "a", "r", "g", "e">>]

DEFAULT_STYLE ==
    [C_TITLE |-> <<"#", "1", "1", "1", "1", "1", "1">>,
     C_COMMENT |-> <<"#", "9", "9", "9", "9", "9", "9">>,
     C_BG |-> <<"#", "f", "f", "f", "f", "f", "f">>,
     C_HIGHLIGHT |-> <<"#", "f", "8", "c", "2", "9", "1">>,
     C_MATCH |-> <<"#", "1", "1", "1", "1", "1", "1">>,
     F_REGULAR |-> <<"U", "b", "u", "n", "t", "u", ",", "s", "a", "n", "s", "-", "1", "1">>,
     F_BOLD |-> <<"U", "b", "u", "n", "t", "u", ",", "s", "a", "n", "s", "-", "1", "1",
                  ":", "b", "o", "l", "d">>,
     F_SMALLREGULAR |-> <<"U", "b", "u", "n", "t", "u", ",", "s", "a", "n", "s", "-", "1", "0">>,
     F_SMALLBOLD |-> <<"U", "b", "u", "n", "t", "u", ",", "s", "a", "n", "s", "-", "1", "0",
                       ":", "b", "o", "l", "d">>,
     F_LARGE |-> <<"U", "b", "u", "n", "t", "u", ",", "s", "a", "n", "s", "-", "2", "0",
                   ":", "l", "i", "g", "h", "t">>]

Digits == <<"0", "1", "2", "3", "4", "5", "6", "7", "8", "9">>

\* outfile << n for an int n >= 0: its decimal digits
RECURSIVE putInt(_)
putInt(n) ==
    IF n < 10 THEN <<Digits[n + 1]>>
    ELSE putInt(n \div 10) \o <<Digits[(n % 10) + 1]>>

\* the loop over STYLE_ATTRIBUTES: a line for each style that is not the default
RECURSIVE styleLines(_, _)
styleLines(types, st) ==
    IF types = << >> THEN << >>
    ELSE (IF st[Head(types)] # DEFAULT_STYLE[Head(types)]
          THEN <<STYLE_ATTRIBUTES[Head(types)] \o <<"=">> \o st[Head(types)]>>
          ELSE << >>)
         \o styleLines(Tail(types), st)

\* the loop over applications: a line for each count above 0
RECURSIVE countLines(_)
countLines(apps) ==
    IF apps = << >> THEN << >>
    ELSE (IF Head(apps).count > 0
          THEN <<Head(apps).id \o <<"=">> \o putInt(Head(apps).count)>>
          ELSE << >>)
         \o countLines(Tail(apps))

\* writeConfig that writes no style line
writeConfigCounts(apps, st) ==
    << <<"[", "S", "t", "y", "l", "e", "]">>,
       << >>,
       <<"[", "A", "p", "p", "l", "i", "c", "a", "t", "i", "o", "n", " ",
         "L", "a", "u", "n", "c", "h", " ", "C", "o", "u", "n", "t", "s", "]">> >>
    \o countLines(apps)

\* the lines writeConfig leaves in CONFIG (the file is overwritten)
writeConfig(apps, st) ==
    << <<"[", "S", "t", "y", "l", "e", "]">> >>
    \o styleLines(StyleAttribute, st)
    \o << << >>,
          <<"[", "A", "p", "p", "l", "i", "c", "a", "t", "i", "o", "n", " ",
            "L", "a", "u", "n", "c", "h", " ", "C", "o", "u", "n", "t", "s", "]">> >>
    \o countLines(apps)

Max(S) == CHOOSE x \in S : \A y \in S : x >= y

DigitValue(c) == (CHOOSE d \in 1..10 : Digits[d] = c) - 1

IsDigit(c) == \E d \in 1..10 : Digits[d] = c

\* the bytes isspace accepts
Whitespace == {SP, "\t", "\n", "\r"}

RECURSIVE digitsValue(_)
digitsValue(ds) ==
    IF ds = << >> THEN 0
    ELSE 10 * digitsValue(SubSeq(ds, 1, Len(ds) - 1)) + DigitValue(ds[Len(ds)])

\* stoi(val): leading white space, an optional sign, then the longest run of
\* digits; without a digit it throws std::invalid_argument (ok is FALSE)
stoi(val) ==
    LET black == {k \in 1..Len(val) : val[k] \notin Whitespace}
        from  == IF black = {} THEN Len(val) + 1 ELSE Min(black)
        signed == from <= Len(val) /\ val[from] \in {"-", "+"}
        first == IF signed THEN from + 1 ELSE from
        stop  == {k \in first..Len(val) : ~IsDigit(val[k])}
        last  == IF stop = {} THEN Len(val) ELSE Min(stop) - 1
        n     == digitsValue(SubSeq(val, first, last))
    IN  IF last < first THEN [ok |-> FALSE, value |-> 0]
        ELSE [ok |-> TRUE, value |-> IF signed /\ val[from] = "-" THEN 0 - n ELSE n]

\* the body of the loop of readConfig over one line; st is
\* [style, applications, ok], ok turning FALSE when stoi throws
readConfigLine(st, line) ==
    LET eqs == {k \in 1..Len(line) : line[k] = "="}
        i   == Max(eqs) - 1
        key == SubSeq(line, 1, i)
        val == substr(line, i + 1)
        types == {t \in 1..Len(StyleAttribute) : STYLE_ATTRIBUTES[StyleAttribute[t]] = key}
        apps  == {a \in 1..Len(st.applications) : st.applications[a].id = key}
    IN  IF ~st.ok \/ eqs = {} THEN st
        ELSE IF find(key, <<"/">>) = npos
        THEN IF types = {} THEN st
             ELSE [st EXCEPT !.style[StyleAttribute[Min(types)]] = val]
        ELSE IF apps = {} THEN st
             ELSE IF ~stoi(val).ok THEN [st EXCEPT !.ok = FALSE]
             ELSE [st EXCEPT !.applications[Min(apps)].count = stoi(val).value]

RECURSIVE readConfigLines(_, _)
readConfigLines(st, lines) ==
    IF lines = << >> THEN st
    ELSE readConfigLines(readConfigLine(st, Head(lines)), Tail(lines))

\* readConfig on the applications and style just built, from the lines of CONFIG
\* (a missing file has no lines)
readConfig(apps, st, lines) ==
    readConfigLines([style |-> st, applications |-> apps, ok |-> TRUE], lines)

(***************************************************************************)
(* search                                                                  *)
(***************************************************************************)
\* the offsets (zero-based) of the keywords of app that contain q
matching(app, q) ==
    {i \in 0..(Len(app.keywords) - 1) : find(app.keywords[i + 1].word, q) # npos}

\* scoreOf from the count alone
scoreByCount(app, q) ==
    IF matching(app, q) = {} THEN 0 ELSE 1 + app.count

\* scoreOf from the keyword that scores highest instead of the first one
scoreBest(app, q) ==
    IF matching(app, q) = {} THEN 0
    ELSE Max({(100 - i) * app.keywords[i + 1].weight
                  * (IF find(app.keywords[i + 1].word, q) = 0 THEN 10000 ELSE 100)
                  + app.count : i \in matching(app, q)})

\* scoreOf without the higher factor for a match at offset 0
scoreFlat(app, q) ==
    IF matching(app, q) = {} THEN 0
    ELSE LET i == Min(matching(app, q))
         IN  (100 - i) * app.keywords[i + 1].weight * 100 + app.count

\* the inner loop of search: the score of app from its first keyword containing q
scoreOf(app, q) ==
    IF matching(app, q) = {} THEN 0
    ELSE LET i == Min(matching(app, q))
             keyword == app.keywords[i + 1]
             matchIndex == find(keyword.word, q)
         IN  (100 - i) * keyword.weight * (IF matchIndex = 0 THEN 10000 ELSE 100)
             + app.count

\* the Results pushed by the outer loop: app is the position in applications
pushed(apps, q) ==
    {[app |-> a, score |-> scoreOf(apps[a], q)] :
        a \in {b \in 1..Len(apps) : scoreOf(apps[b], q) > 0}}

\* std::sort by score descending: every order of rs in which no score increases
\* (the order among equal scores is not specified)
RECURSIVE sortOutcomes(_)
sortOutcomes(rs) ==
    IF rs = {} THEN {<< >>}
    ELSE LET top == {r \in rs : \A o \in rs : o.score <= r.score}
         IN  UNION {{<<r>> \o rest : rest \in sortOutcomes(rs \ {r})} : r \in top}

\* results.resize(10) when there are more
MaxResults == 10

\* resize that keeps the end of the vector
resizeEnd(rs) ==
    IF Len(rs) > MaxResults THEN SubSeq(rs, Len(rs) - MaxResults + 1, Len(rs)) ELSE rs

resize(rs) == IF Len(rs) > MaxResults THEN SubSeq(rs, 1, MaxResults) ELSE rs

\* search without the test of queryi.length()
searchUnguarded(apps, q) == {resize(rs) : rs \in sortOutcomes(pushed(apps, q))}

\* the values search can leave in results
search(apps, q) ==
    IF Len(q) > 0 THEN {resize(rs) : rs \in sortOutcomes(pushed(apps, q))}
    ELSE {<< >>}

(***************************************************************************)
(* The installed desktop files and the saved counts a run starts from      *)
(***************************************************************************)
File(path, lines) == [path |-> path, lines |-> lines]

\* the file CONFIG as an earlier run left it: the applications of files with
\* counts[k] launches of the k-th one, saved with the default style
savedConfig(files, counts) ==
    LET apps == getApplications(files)
    IN  writeConfig([k \in 1..Len(files) |-> [apps[k] EXCEPT !.count = counts[k]]],
                    DEFAULT_STYLE)

Installation(files, counts) == [files |-> files, config |-> savedConfig(files, counts)]

\* two applications of equal score for "a" and "b", one better, one worse
SmallFiles ==
    << File(<<"/", "1">>, << NameKey \o <<"A", "b">> >>),
       File(<<"/", "2">>, << NameKey \o <<"B", "a">>, CommentKey \o <<"a", " ", "b">> >>),
       File(<<"/", "3">>, << NameKey \o <<"B", "a">>, CommentKey \o <<"a", " ", "b">> >>),
       File(<<"/", "4">>, << KeywordsKey \o <<"b", "a", "b">>, ExecKey \o <<"x">>,
                             NameKey \o <<"X">> >>) >>

\* the number of applications named "A" in ManyFiles: more than MaxResults
ManyApps == 11

ManyFiles ==
    [k \in 1..ManyApps |-> File(<<"/", "m">> \o putInt(k), << NameKey \o <<"A">> >>)]

SessionInstallations ==
    { Installation(SmallFiles, <<2, 0, 0, 1>>),
      Installation(ManyFiles, [k \in 1..ManyApps |-> k]) }

(***************************************************************************)
(* The session: main, onKeyPress, launch                                   *)
(***************************************************************************)
\* the longest query typed
MaxQueryLen == 3

\* what Xutf8LookupString delivers for a key that is not one of the named ones:
\* one byte (NUL for Control-space), nothing, or a character of several bytes
InputTexts == { <<"a">>, <<"B">>, <<NUL>>, << >>, <<"0xC3", "0xA9">> }

\* main up to the event loop: getApplications, readConfig (which ends the
\* process when stoi throws), and the initial values of the globals
Startup(inst) ==
    LET loaded == readConfig(getApplications(inst.files), DEFAULT_STYLE, inst.config)
    IN  /\ installed = inst.files
        /\ applications = loaded.applications
        /\ style = loaded.style
        /\ config = inst.config
        /\ status = IF loaded.ok THEN "running" ELSE "aborted"
        /\ query = << >>
        /\ queryi = << >>
        /\ selected = 0
        /\ cursor = 0
        /\ results = << >>
        /\ child = "none"
        /\ lastCmd = "none"
        /\ prev = [query |-> << >>, cursor |-> 0, selected |-> 0, results |-> << >>]

Init == \E inst \in SessionInstallations : Startup(inst)

Before == [query |-> query, cursor |-> cursor, selected |-> selected, results |-> results]

\* reset that never resets
resetNever(sel, n) == sel

\* if (selected >= results.size()) selected = 0, for results.size() = n
reset(sel, n) == IF ~SizeLess(sel, n) THEN 0 ELSE sel

\* up that stops at the first result
upClamped(sel, n) == IF sel > 0 THEN sel - 1 ELSE 0

\* case XK_Up, for results.size() = n
up(sel, n) == IF sel > 0 THEN sel - 1 ELSE n - 1

\* case XK_Down, for results.size() = n
down(sel, n) == IF SizeLess(sel, n - 1) THEN sel + 1 ELSE 0

\* the loop body of main after the handler: search, then selected back to 0
\* when it is not below results.size().  std::sort is a function of its input:
\* searching again for the query searched last leaves the same results
Rerank(q, sel) ==
    /\ results' \in {rs \in search(applications, q) : q = queryi => rs = results}
    /\ selected' = reset(sel, Len(results'))

\* a key press that leaves the handler with query q, cursor c and selected sel:
\* queryi = lowercase(query), then the rest of the loop body
KeyPress(cmd, q, c, sel) ==
    /\ query' = q
    /\ cursor' = c
    /\ queryi' = lowercase(q)
    /\ Rerank(lowercase(q), sel)
    /\ lastCmd' = cmd
    /\ prev' = Before
    /\ UNCHANGED <<installed, applications, style, config, status, child>>

\* an uncaught std::out_of_range: std::terminate
Throw(cmd) ==
    /\ status' = "aborted"
    /\ lastCmd' = cmd
    /\ prev' = Before
    /\ UNCHANGED <<installed, applications, style, config, query, queryi, selected, cursor,
                   results, child>>

\* exit(0)
Exit(cmd) ==
    /\ status' = "exited"
    /\ lastCmd' = cmd
    /\ prev' = Before
    /\ UNCHANGED <<installed, applications, style, config, query, queryi, selected, cursor,
                   results, child>>

\* str.erase(pos, 1) for pos <= str.length()
erase(str, pos) == SubSeq(str, 1, pos) \o SubSeq(str, pos + 2, Len(str))

\* case XK_Left: the cursor it leaves
left(c) == IF c > 0 THEN c - 1 ELSE 0

\* case XK_BackSpace for cursor - 1 <= query.length(): the query and the cursor
\* it leaves
backspace(q, c) ==
    IF c > 0 THEN [query |-> erase(q, c - 1), cursor |-> c - 1]
    ELSE [query |-> q, cursor |-> c]

\* case XK_Delete: the query and the cursor it leaves
delete(q, c) ==
    [query |-> IF SizeLess(c, Len(q)) THEN erase(q, c) ELSE q, cursor |-> c]

\* the default branch with textlength == 1, for cursor <= query.length(): text
\* is appended as a C string, and cursor++
insert(q, c, text) ==
    [query |-> SubSeq(q, 1, c) \o CString(text) \o SubSeq(q, c + 1, Len(q)),
     cursor |-> c + 1]

\* the arguments the child passes to execvp: the words of cmd that do not
\* start with '%'
arguments(cmd) ==
    LET Kept(arg) == find(arg, <<"%">>) # 0
    IN  SelectSeq(getlineAll(cmd, SP), Kept)

\* what fork and execvp can come to for app: fork fails, execvp fails in the
\* child (always so without a first argument), or the application starts
forkOutcomes(app) ==
    {"forkfailed", "execfailed"}
        \cup (IF arguments(app.cmd) # << >> THEN {"started"} ELSE {})

\* launch in the launcher's own process (pid != 0, a failed fork included):
\* app.count++, writeConfig, exit(0)
launch(a) ==
    /\ child' \in forkOutcomes(applications[a])
    /\ applications' = [applications EXCEPT ![a].count = @ + 1]
    /\ config' = writeConfig(applications', style)
    /\ status' = "exited"

XK_Escape ==
    /\ status = "running"
    /\ Exit("Cancel")

\* results[selected] outside the vector is undefined: a fault, or whatever
\* Application the stale storage points at
XK_Return ==
    /\ status = "running"
    /\ IF selected >= 0 /\ selected < Len(results)
       THEN launch(results[selected + 1].app)
       ELSE \/ /\ status' = "fault"
               /\ UNCHANGED <<applications, config, child>>
            \/ \E a \in 1..Len(applications) : launch(a)
    /\ lastCmd' = "Confirm"
    /\ prev' = Before
    /\ UNCHANGED <<installed, style, query, queryi, selected, cursor, results>>

XK_Up ==
    /\ status = "running"
    /\ KeyPress("SelectPrev", query, cursor, up(selected, Len(results)))

XK_Down ==
    /\ status = "running"
    /\ KeyPress("SelectNext", query, cursor, down(selected, Len(results)))

XK_Left ==
    /\ status = "running"
    /\ KeyPress("MoveLeft", query, left(cursor), selected)

XK_Right ==
    /\ status = "running"
    /\ KeyPress("MoveRight", query,
                IF SizeLess(cursor, Len(query)) THEN cursor + 1 ELSE Len(query), selected)

XK_Home ==
    /\ status = "running"
    /\ KeyPress("MoveHome", query, 0, selected)

XK_End ==
    /\ status = "running"
    /\ KeyPress("MoveEnd", query, Len(query), selected)

\* query.erase(cursor - 1, 1) throws when cursor - 1 is beyond the end
XK_BackSpace ==
    /\ status = "running"
    /\ IF cursor > 0 /\ SizeLess(Len(query), cursor - 1)
       THEN Throw("Backspace")
       ELSE KeyPress("Backspace", backspace(query, cursor).query,
                     backspace(query, cursor).cursor, selected)

XK_Delete ==
    /\ status = "running"
    /\ KeyPress("Delete", delete(query, cursor).query, delete(query, cursor).cursor,
                selected)

\* the default branch with textlength == 1; query.substr(cursor, ...) throws
\* when cursor is beyond the end
InsertChar(text) ==
    /\ status = "running"
    /\ Len(text) = 1
    /\ Len(query) < MaxQueryLen
    /\ IF SizeLess(Len(query), cursor)
       THEN Throw("InsertChar")
       ELSE KeyPress("InsertChar", insert(query, cursor, text).query,
                     insert(query, cursor, text).cursor, selected)

\* the default branch with any other textlength
IgnoredKey(text) ==
    /\ status = "running"
    /\ Len(text) # 1
    /\ KeyPress("Ignored", query, cursor, selected)

\* a FocusOut event
FocusOut ==
    /\ status = "running"
    /\ Exit("FocusOut")

\* an Expose or FocusIn event: no handler, only the rest of the loop body
OtherEvent ==
    /\ status = "running"
    /\ Rerank(queryi, selected)
    /\ lastCmd' = "Redraw"
    /\ prev' = Before
    /\ UNCHANGED <<installed, applications, style, config, status, child, query, queryi, cursor>>

Next ==
    \/ XK_Escape
    \/ XK_Return
    \/ XK_Up
    \/ XK_Down
    \/ XK_Left
    \/ XK_Right
    \/ XK_Home
    \/ XK_End
    \/ XK_BackSpace
    \/ XK_Delete
    \/ \E text \in InputTexts : InsertChar(text)
    \/ \E text \in InputTexts : IgnoredKey(text)
    \/ FocusOut
    \/ OtherEvent

Spec == Init /\ [][Next]_vars

(***************************************************************************)
(* Properties of the session                                               *)
(***************************************************************************)
Edits == {"InsertChar", "Backspace", "Delete"}

\* C1: in every state of a running session the cursor is an offset into the
\* query, 0 <= cursor <= len(query).
CursorInQuery == status = "running" => (0 <= cursor /\ cursor <= Len(query))

\* C2: once an event has been handled (handler, search, reset), selected is an
\* index of results when there are results and 0 when there are none.
SelectedValid ==
    status = "running" =>
        IF results = << >> THEN selected = 0
        ELSE 0 <= selected /\ selected < Len(results)

\* SelectPrev was handled with no results: the handler left -1 behind
SelectPrevOnEmpty ==
    /\ status = "running"
    /\ lastCmd = "SelectPrev"
    /\ prev.results = << >>
    /\ results = << >>

\* C3: whenever Confirm is handled, results[selected] exists.
ConfirmInsideResults ==
    lastCmd = "Confirm" => (0 <= selected /\ selected < Len(results))

\* C4: after every event of a running session results is a ranking of
\* lowercase(query), and after an edit selected is what it was if that is
\* still below len(results), else 0.
RerankedAfterEdit ==
    [][status' = "running" =>
          /\ results' \in search(applications', lowercase(query'))
          /\ lastCmd' \in Edits =>
                 selected' = IF selected < Len(results') THEN selected ELSE 0]_vars

\* an edit changed the query, left results, and selected went back to 0
EditResetSelected ==
    /\ status = "running"
    /\ lastCmd \in Edits
    /\ query # prev.query
    /\ results # << >>
    /\ prev.selected >= Len(results)
    /\ selected = 0

\* C9: with an empty query there are no results and selected is 0, whatever the
\* applications and counts.
EmptyQueryNoResults ==
    /\ search(applications, << >>) = {<< >>}
    /\ (status = "running" /\ query = << >>) => (results = << >> /\ selected = 0)

\* the last character of the query was deleted while a later result was selected
LastCharDeleted ==
    /\ status = "running"
    /\ lastCmd \in {"Backspace", "Delete"}
    /\ Len(prev.query) = 1
    /\ query = << >>
    /\ prev.selected > 0

\* sel after k SelectNext events, each followed by the reset of main
RECURSIVE nextTimes(_, _, _)
nextTimes(k, sel, n) ==
    IF k = 0 THEN sel ELSE nextTimes(k - 1, reset(down(sel, n), n), n)

\* sel after k SelectPrev events, each followed by the reset of main
RECURSIVE prevTimes(_, _, _)
prevTimes(k, sel, n) ==
    IF k = 0 THEN sel ELSE prevTimes(k - 1, reset(up(sel, n), n), n)

\* C10: with n >= 1 results SelectPrev and SelectNext step selected cyclically
\* through 0..n-1 and leave query and cursor alone; n of either, or a
\* SelectNext and then a SelectPrev, lead back to the index they started from.
SelectionCycles ==
    [][LET n == Len(results)
       IN  (status' = "running" /\ n >= 1) =>
               /\ lastCmd' = "SelectPrev" =>
                      /\ selected' = IF selected > 0 THEN selected - 1 ELSE n - 1
                      /\ query' = query /\ cursor' = cursor
               /\ lastCmd' = "SelectNext" =>
                      /\ selected' = IF selected < n - 1 THEN selected + 1 ELSE 0
                      /\ query' = query /\ cursor' = cursor
               /\ nextTimes(n, selected, n) = selected
               /\ prevTimes(n, selected, n) = selected
               /\ reset(up(reset(down(selected, n), n), n), n) = selected]_vars

\* SelectPrev wrapped from the first result to the last of several
SelectPrevWrapped ==
    /\ status = "running"
    /\ lastCmd = "SelectPrev"
    /\ Len(results) >= 3
    /\ prev.selected = 0
    /\ selected = Len(results) - 1

(***************************************************************************)
(* search on its own: installations and queries that reach its cases       *)
(***************************************************************************)
RECURSIVE repeat(_, _)
repeat(str, n) == IF n = 0 THEN << >> ELSE str \o repeat(str, n - 1)

\* a desktop file whose Comment is n words "x" and then word: its keywords are
\* "", n times "x", word, so word is the keyword of index n + 1
LongFile(path, n, word) ==
    File(path, << CommentKey \o repeat(<<"x", " ">>, n) \o word >>)

Web == <<"w", "e", "b">>

Xweb == <<"x", "w", "e", "b">>

\* the application of the worked example, one whose first keyword containing
\* "web" is not its best one, and one that matches in its comment
FirefoxFiles ==
    << File(<<"/", "f">>, << NameKey \o <<"F", "i", "r", "e", "f", "o", "x">>,
                             GenericNameKey \o <<"W", "e", "b", " ",
                                                 "B", "r", "o", "w", "s", "e", "r">> >>),
       File(<<"/", "w">>, << KeywordsKey \o Xweb, NameKey \o <<"W", "e", "b">> >>),
       File(<<"/", "e">>, << NameKey \o <<"E", "d", "i", "t">>,
                             CommentKey \o <<"f", "i", "r", "e", " ", "w", "e", "b">> >>) >>

\* two applications whose first keyword containing "web" has the same index and
\* weight, a prefix match in the first and a match at offset 1 in the second
HintPair == << File(<<"/", "a">>, << KeywordsKey \o Web >>),
               File(<<"/", "b">>, << KeywordsKey \o Xweb >>) >>

NamePair == << File(<<"/", "a">>, << NameKey \o Web >>),
               File(<<"/", "b">>, << NameKey \o Xweb >>) >>

SecondPair == << File(<<"/", "a">>, << NameKey \o <<"z", " ">> \o Web >>),
                 File(<<"/", "b">>, << NameKey \o <<"z", " ">> \o Xweb >>) >>

LatePair == << LongFile(<<"/", "a">>, 98, Web), LongFile(<<"/", "b">>, 98, Xweb) >>

\* first keywords containing "web" at the indices 99, 100 and 101
LongFiles == << LongFile(<<"/", "i">>, 98, Web),
                LongFile(<<"/", "j">>, 99, Web),
                LongFile(<<"/", "k">>, 100, Web) >>

\* n applications named "A" and two whose keyword "a" has index 100 and 101
ManyAndLong(n) ==
    [k \in 1..n |-> File(<<"/", "m">> \o putInt(k), << NameKey \o <<"A">> >>)]
    \o << LongFile(<<"/", "j">>, 99, <<"a">>), LongFile(<<"/", "k">>, 100, <<"a">>) >>

\* their counts: all different but for the first two, and none for the last two
ManyCounts(n) == [k \in 1..(n + 2) |-> IF k > n THEN 0 ELSE IF k = 1 THEN 2 ELSE k]

\* desktop files as they are written: Keywords= after Exec=, two Keywords=
\* lines, capitals, words that repeat, spaces in a row and at either end, and
\* a file with a name only
IndexFiles ==
    << File(<<"/", "p">>, << NameKey \o <<"P", "a", "d">>,
                             ExecKey \o <<"p", "a", "d", " ", "%", "f">>,
                             KeywordsKey \o <<"W", "e", "b", " ", "T", "o", "o", "l">> >>),
       File(<<"/", "q">>, << KeywordsKey \o <<"N", "e", "t", " ", " ", "W", "E", "B">>,
                             KeywordsKey \o <<"w", "e", "b", " ">>,
                             NameKey \o <<" ", "M", "y", " ", " ", "W", "e", "b">>,
                             GenericNameKey \o <<"E", "d", "i", "t", "o", "r", " ">>,
                             CommentKey \o <<"e", "d", "i", "t", " ", " ", "w", "e", "b">>,
                             ExecKey \o <<"q">> >>),
       File(<<"/", "r">>, << NameKey \o <<"S", "o", "l", "o">> >>) >>

SearchInstallations ==
    { Installation(IndexFiles, <<0, 1, 0>>),
      Installation(FirefoxFiles, <<5, 0, 0>>),
      Installation(FirefoxFiles, <<5, 7, 2>>),
      Installation(HintPair, <<0, 0>>),
      Installation(HintPair, <<3, 40>>),
      Installation(HintPair, <<0, 990000>>),
      Installation(HintPair, <<0, 990001>>),
      Installation(NamePair, <<1, 2>>),
      Installation(NamePair, <<0, 990000001>>),
      Installation(SecondPair, <<0, 9>>),
      Installation(LatePair, <<0, 9901>>),
      Installation(LatePair, <<2, 2>>),
      Installation(LongFiles, <<0, 0, 0>>),
      Installation(LongFiles, <<1, 4, 10001>>),
      Installation(ManyAndLong(ManyApps - 2), ManyCounts(ManyApps - 2)),
      Installation(ManyAndLong(ManyApps), ManyCounts(ManyApps)) }

SearchQueries ==
    { << >>, <<"f", "i", "r", "e">>, Web, Xweb, <<"e", "b">>, <<"f", "o", "x">>,
      <<"b">>, <<"a">>, <<"x">>, <<"z">>, <<"e">>, <<"q">> }

SearchInit == \E inst \in SearchInstallations : Startup(inst)

\* search() with queryi = q
Search(q) ==
    /\ status = "running"
    /\ queryi' = q
    /\ results' \in {rs \in search(applications, q) : q = queryi => rs = results}
    /\ lastCmd' = "Search"
    /\ prev' = Before
    /\ UNCHANGED <<installed, applications, style, config, query, selected, cursor, status, child>>

SearchNext == \E q \in SearchQueries : Search(q)

SearchSpec == SearchInit /\ [][SearchNext]_vars

(***************************************************************************)
(* Properties of search                                                    *)
(***************************************************************************)
\* q occurs in word as a contiguous substring
Contains(word, q) ==
    \E p \in 0..(Len(word) - Len(q)) : \A k \in 1..Len(q) : word[p + k] = q[k]

\* app has a keyword that contains q
Matches(app, q) == \E k \in 1..Len(app.keywords) : Contains(app.keywords[k].word, q)

\* the index i of the first keyword of app that contains q
FirstIndex(app, q) ==
    CHOOSE i \in 0..(Len(app.keywords) - 1) :
        /\ Contains(app.keywords[i + 1].word, q)
        /\ \A j \in 0..(i - 1) : ~Contains(app.keywords[j + 1].word, q)

\* q is a prefix of word
Prefix(word, q) == Len(q) <= Len(word) /\ \A k \in 1..Len(q) : word[k] = q[k]

\* (100 - i) * w * (m == 0 ? 10000 : 100) for the keyword of index i of app
Primary(app, i, q) ==
    (100 - i) * app.keywords[i + 1].weight
        * (IF Prefix(app.keywords[i + 1].word, q) THEN 10000 ELSE 100)

InResults(a) == \E k \in 1..Len(results) : results[k].app = a

Position(a) == CHOOSE k \in 1..Len(results) : results[k].app = a

Searched == status = "running" /\ lastCmd = "Search" /\ Len(queryi) > 0

\* the keyword list of the worked example
ExampleKeywords ==
    << [word |-> <<"f", "i", "r", "e", "f", "o", "x">>, weight |-> 1000],
       [word |-> Web, weight |-> 1],
       [word |-> <<"b", "r", "o", "w", "s", "e", "r">>, weight |-> 1] >>

\* every result carries the score of the first keyword of its application that
\* contains the query, and the example application, with count 5, scores
\* fire for the query "fire" and 990005 for "web"
ScoresAre(fire) ==
    Searched =>
        \A k \in 1..Len(results) :
            LET app == applications[results[k].app]
            IN  /\ Matches(app, queryi)
                /\ results[k].score
                       = Primary(app, FirstIndex(app, queryi), queryi) + app.count
                /\ (app.keywords = ExampleKeywords /\ app.count = 5) =>
                       /\ queryi = <<"f", "i", "r", "e">> => results[k].score = fire
                       /\ queryi = Web => results[k].score = 990005

\* C5 as stated: the score is (100 - i) * w * (m == 0 ? 10000 : 100) + count for
\* the first keyword containing q, and the example scores 100000005 for "fire"
\* and 990005 for "web".
ScoreExampleAsStated == ScoresAre(100000005)

\* C5: the score is (100 - i) * w * (m == 0 ? 10000 : 100) + count for the first
\* keyword containing q, later keywords are not considered, and the example
\* scores 1000000005 for "fire" and 990005 for "web".
ScoreOfFirstKeyword == ScoresAre(1000000005)

\* "web" was searched: the example application is a result, and so is one
\* with a later keyword that would have scored higher than its first
LaterKeywordBetter ==
    /\ Searched
    /\ queryi = Web
    /\ \E k \in 1..Len(results) :
           /\ applications[results[k].app].keywords = ExampleKeywords
           /\ applications[results[k].app].count = 5
    /\ \E k \in 1..Len(results) :
           LET app == applications[results[k].app]
           IN  \E j \in 0..(Len(app.keywords) - 1) :
                   /\ Contains(app.keywords[j + 1].word, queryi)
                   /\ Primary(app, j, queryi) + app.count > results[k].score

\* C6: when more than 10 applications have a keyword containing the query,
\* there are exactly 10 results and none scores below an application that
\* matches and was not returned.
TopTen ==
    LET matches == {a \in 1..Len(applications) : Matches(applications[a], queryi)}
    IN  (Searched /\ Cardinality(matches) > 10) =>
            /\ Len(results) = 10
            /\ \A k \in 1..Len(results) : \A a \in matches :
                   ~InResults(a) =>
                       results[k].score
                           >= Primary(applications[a], FirstIndex(applications[a], queryi),
                                      queryi) + applications[a].count

\* C7: for a non-empty query an application is pushed as a candidate exactly
\* when one of its keywords contains the query, and at most once.
CandidateIffMatch ==
    Searched =>
        /\ \A a \in 1..Len(applications) :
               Matches(applications[a], queryi)
                   <=> (\E r \in pushed(applications, queryi) : r.app = a)
        /\ \A a \in 1..Len(applications) :
               Cardinality({k \in 1..Len(results) : results[k].app = a}) <= 1
        /\ Cardinality(pushed(applications, queryi)) <= MaxResults =>
               \A a \in 1..Len(applications) :
                   Matches(applications[a], queryi) <=> InResults(a)

\* a and b first match q at the same index with the same weight, a by a prefix
\* and b only at a later offset
PrefixAgainstInner(a, b, q) ==
    /\ Matches(applications[a], q)
    /\ Matches(applications[b], q)
    /\ LET i == FirstIndex(applications[a], q)
           j == FirstIndex(applications[b], q)
       IN  /\ i = j
           /\ applications[a].keywords[i + 1].weight = applications[b].keywords[j + 1].weight
           /\ Prefix(applications[a].keywords[i + 1].word, q)
           /\ ~Prefix(applications[b].keywords[j + 1].word, q)

MaxCount == 3

\* one application with a command and one without
ConfigFiles ==
    << File(<<"/", "1">>, << NameKey \o <<"A">>, ExecKey \o <<"x">> >>),
       File(<<"/", "2">>, << NameKey \o <<"B">> >>) >>

\* a style with two attributes overridden
OwnStyle ==
    [DEFAULT_STYLE EXCEPT !.C_TITLE = <<"#", "2", "2", "2", "2", "2", "2">>,
                          !.F_LARGE = <<"S", "a", "n", "s", "-", "9">>]

\* CONFIG as an earlier run with the style st left it
styledConfig(files, counts, st) ==
    LET apps == getApplications(files)
    IN  writeConfig([k \in 1..Len(files) |-> [apps[k] EXCEPT !.count = counts[k]]], st)

\* count records as an editor or another program can leave them
NotANumber == <<"/", "1", "=", "a", "b", "c">>
NoValue == <<"/", "1", "=">>
Negative == <<"/", "1", "=", "-", "5">>
Padded == <<"/", "2", "=", " ", "2", "x">>
Second == <<"/", "2", "=", "1">>
UnknownKey == <<"f", "o", "o", "=", "b", "a", "r">>

\* a style record written by hand
TitleRecord == STYLE_ATTRIBUTES.C_TITLE \o <<"=">> \o OwnStyle.C_TITLE

ConfigInstallations ==
    { [files |-> ConfigFiles, config |-> << >>],
      Installation(ConfigFiles, <<0, 0>>),
      Installation(ConfigFiles, <<2, 0>>),
      [files |-> ConfigFiles, config |-> styledConfig(ConfigFiles, <<1, 0>>, OwnStyle)],
      [files |-> ConfigFiles, config |-> styledConfig(ConfigFiles, <<0, 1>>, OwnStyle)],
      [files |-> ConfigFiles, config |-> <<UnknownKey, Padded>>],
      [files |-> ConfigFiles, config |-> <<TitleRecord, Second>>],
      [files |-> ConfigFiles, config |-> <<NotANumber, Second>>],
      [files |-> ConfigFiles, config |-> <<NoValue, Second>>],
      [files |-> ConfigFiles, config |-> <<Negative, Second>>] }

ConfigInit == \E inst \in ConfigInstallations : Startup(inst)

\* launch(app) for the a-th application, as case XK_Return calls it
Launch(a) ==
    /\ status = "running"
    /\ applications[a].count < MaxCount
    /\ launch(a)
    /\ lastCmd' = "Confirm"
    /\ prev' = Before
    /\ UNCHANGED <<installed, style, query, queryi, selected, cursor, results>>

\* the launcher is started again after it exited: main up to the event loop,
\* with the CONFIG the last run left
Restart ==
    /\ status = "exited"
    /\ LET loaded == readConfig(getApplications(installed), DEFAULT_STYLE, config)
       IN  /\ applications' = loaded.applications
           /\ style' = loaded.style
           /\ status' = IF loaded.ok THEN "running" ELSE "aborted"
    /\ child' = "none"
    /\ lastCmd' = "Restart"
    /\ prev' = Before
    /\ UNCHANGED <<installed, config, query, queryi, selected, cursor, results>>

ConfigNext ==
    \/ \E a \in 1..Len(applications) : Launch(a)
    \/ Restart

ConfigSpec == ConfigInit /\ [][ConfigNext]_vars

(***************************************************************************)
(* Properties of the store                                                 *)
(***************************************************************************)
\* the applications as getApplications leaves them: every count 0
Unlaunched(apps) == [k \in 1..Len(apps) |-> [apps[k] EXCEPT !.count = 0]]

\* the count readConfig gives the a-th application from lines
Persisted(lines, a) ==
    readConfig(Unlaunched(applications), DEFAULT_STYLE, lines).applications[a].count

\* lines holds a record for key
Recorded(lines, key) ==
    \E k \in 1..Len(lines) : StartsWith(lines[k], key \o <<"=">>)

\* C11: with every count >= 0, writeConfig followed by readConfig into the
\* default style and counts 0 gives back the style of every attribute and the
\* count of every application, and writeConfig writes no record for a count
\* of 0 or for a style that is the default.
SaveLoadRoundTrip ==
    (\A a \in 1..Len(applications) : applications[a].count >= 0) =>
        LET lines == writeConfig(applications, style)
            loaded == readConfig(Unlaunched(applications), DEFAULT_STYLE, lines)
        IN  /\ loaded.ok
            /\ loaded.style = style
            /\ loaded.applications = applications
            /\ \A a \in 1..Len(applications) :
                   applications[a].count = 0 => ~Recorded(lines, applications[a].id)
            /\ \A t \in 1..Len(StyleAttribute) :
                   style[StyleAttribute[t]] = DEFAULT_STYLE[StyleAttribute[t]]
                       => ~Recorded(lines, STYLE_ATTRIBUTES[StyleAttribute[t]])

\* a run loaded what the run before saved: an overridden style, a count above
\* 0 and a count of 0
LoadedWhatWasSaved ==
    /\ status = "running"
    /\ lastCmd = "Restart"
    /\ config = writeConfig(applications, style)
    /\ style = OwnStyle
    /\ \E a \in 1..Len(applications) : applications[a].count > 0
    /\ \E a \in 1..Len(applications) : applications[a].count = 0

\* C12: loading never aborts and leaves no application with a count below 0,
\* whatever the count records hold.
LoadSkipsBadCounts ==
    /\ status # "aborted"
    /\ \A a \in 1..Len(applications) : applications[a].count >= 0

\* C13: a launch of application a adds exactly 1 to its count before CONFIG is
\* written, so that CONFIG holds its count before the launch plus 1 and the
\* count of every other application as it was, and the process has exited.
LaunchCounted ==
    [][lastCmd' = "Confirm" /\ status' # "fault" =>
          /\ status' = "exited"
          /\ \E a \in 1..Len(applications) :
                 /\ applications'[a].count = applications[a].count + 1
                 /\ Persisted(config', a) = applications[a].count + 1
                 /\ \A b \in 1..Len(applications) \ {a} :
                        /\ applications'[b] = applications[b]
                        /\ Persisted(config', b) = applications[b].count]_vars

\* C14: once loaded, a count changes only when that application was started,
\* and then upwards: no event but Confirm changes applications or CONFIG, no
\* event changes a keyword list or lowers a count, and a launch in which the
\* application did not start changes no count.
CountOnlyBySuccessfulLaunch ==
    [][/\ lastCmd' # "Confirm" => UNCHANGED <<applications, config>>
       /\ \A a \in 1..Len(applications) :
              /\ applications'[a].keywords = applications[a].keywords
              /\ applications'[a].count >= applications[a].count
       /\ child' # "started" =>
              \A a \in 1..Len(applications) :
                  applications'[a].count = applications[a].count]_vars

(***************************************************************************)
(* Properties of the keyword lists                                         *)
(***************************************************************************)
\* C15: no keyword of an indexed application is the empty word.
NoEmptyKeyword ==
    \A a \in 1..Len(applications) : \A k \in 1..Len(applications[a].keywords) :
        applications[a].keywords[k].word # << >>

\* the words of str between spaces, in lower case, none of them empty
Tokens(str) ==
    LET NotEmpty(word) == word # << >>
    IN  SelectSeq(getlineAll(lowercase(str), SP), NotEmpty)

\* the tokens of all the Keywords= lines among lines, in order
RECURSIVE HintTokens(_)
HintTokens(lines) ==
    IF lines = << >> THEN << >>
    ELSE (IF StartsWith(Head(lines), KeywordsKey) THEN Tokens(substr(Head(lines), 9))
          ELSE << >>)
         \o HintTokens(Tail(lines))

\* C16: the keyword list of every application is the tokens of its keyword
\* hints with weight 1, then the tokens of its name with weight 1000, then the
\* tokens of genericName + " " + comment with weight 1, repeats included.
KeywordsInOrder ==
    \A a \in 1..Len(applications) :
        LET app == applications[a]
        IN  app.keywords
                = Weighted(HintTokens(installed[a].lines), 1)
                  \o Weighted(Tokens(app.name), 1000)
                  \o Weighted(Tokens(app.genericName \o <<SP>> \o app.comment), 1)

(***************************************************************************)
(* Properties of the ranking                                               *)
(***************************************************************************)
\* (100 - i) * w * (m == 0 ? 10000 : 100) for the first keyword of the a-th
\* application that contains the query
PrimaryOf(a) == Primary(applications[a], FirstIndex(applications[a], queryi), queryi)

ResultsByScore ==
    status = "running" =>
        /\ \A k \in 1..(Len(results) - 1) : results[k].score >= results[k + 1].score
        /\ results # << >> =>
               \A a \in 1..Len(applications) :
                   Matches(applications[a], queryi) =>
                       results[1].score >= scoreOf(applications[a], queryi)

\* a re-ranking left more than one score in results, and two results of equal
\* score the other way round than in applications
TieOutOfOrder ==
    /\ status = "running"
    /\ lastCmd \in Edits
    /\ \E k \in 1..(Len(results) - 1) : results[k].score > results[k + 1].score
    /\ \E k \in 1..(Len(results) - 1) :
           /\ results[k].score = results[k + 1].score
           /\ results[k].app > results[k + 1].app

(***************************************************************************)
(* Properties of the editing commands                                      *)
(***************************************************************************)
\* the bytes that continue a character of several bytes
ContinuationBytes == {"0xA9"}

\* the number of characters in the bytes of text
Characters(text) == Cardinality({k \in 1..Len(text) : text[k] \notin ContinuationBytes})

\* C19: a key that is none of the named ones and whose text is not one
\* character leaves query, cursor, results and selected as they were; with a
\* text of one character the character is put in at the cursor, the cursor
\* moves on by 1, the query is longer by 1 and the text on either side of the
\* cursor is kept.
TextKeys ==
    [][\A text \in InputTexts :
          (InsertChar(text) \/ IgnoredKey(text)) =>
              IF Characters(text) = 1
              THEN /\ status' = "running"
                   /\ cursor' = cursor + 1
                   /\ Len(query') = Len(query) + Len(text)
                   /\ SubSeq(query', 1, cursor) = SubSeq(query, 1, cursor)
                   /\ SubSeq(query', cursor + 1, cursor + Len(text)) = text
                   /\ SubSeq(query', cursor + Len(text) + 1, Len(query'))
                          = SubSeq(query, cursor + 1, Len(query))
              ELSE UNCHANGED <<query, cursor, results, selected>>]_vars

Moves == {"MoveLeft", "MoveRight", "MoveHome", "MoveEnd"}

\* the texts of one byte
Typed == {text \in InputTexts : Len(text) = 1}

\* C20: in every state of a running session, a character typed and then
\* Backspace, or then MoveLeft and Delete, give back the query and the cursor
\* (and neither the insertion nor the Backspace throws); Backspace with the
\* cursor at 0 and Delete with the cursor at the end change neither; MoveLeft,
\* MoveRight, MoveHome and MoveEnd never change the query.
EditsUndo ==
    [][/\ status = "running" =>
              /\ ~SizeLess(Len(query), cursor)
              /\ \A text \in Typed :
                     LET now == [query |-> query, cursor |-> cursor]
                         typed == insert(query, cursor, text)
                     IN  /\ ~SizeLess(Len(typed.query), typed.cursor - 1)
                         /\ backspace(typed.query, typed.cursor) = now
                         /\ delete(typed.query, left(typed.cursor)) = now
       /\ lastCmd' = "Backspace" /\ cursor = 0 => UNCHANGED <<query, cursor>>
       /\ lastCmd' = "Delete" /\ cursor = Len(query) => UNCHANGED <<query, cursor>>
       /\ lastCmd' \in Moves => query' = query]_vars

====
